---- MODULE Spec2Model ----
(***************************************************************************)
(* The App component of termine-fe/src/App.js as a state machine.          *)
(*                                                                         *)
(* One step is one execution of a callback on the browser's event loop:    *)
(* a user handler, the then/catch callback of an HTTP request, a timer     *)
(* callback, one React effect, or one render.  The setState calls of one   *)
(* callback are applied together.  React runs the effects of a render      *)
(* before it handles the next event: the specifications that have the      *)
(* effects let an event happen only when Settled.                          *)
(*                                                                         *)
(* The component is checked in four parts, which share Init and the        *)
(* actions: SpecBooking (claiming, booking, cancelling, every input),      *)
(* SpecRefresh (slot list, spinner, timers, teardown, driven by the        *)
(* booking handlers), SpecHistory (tabs and booking history) and           *)
(* SpecSpinner (the slot list's requests and timers, under fairness).      *)
(***************************************************************************)
EXTENDS Integers, Sequences, FiniteSets, TLC

VARIABLES
    mounted,              \* the component has not been torn down
    triggerRefresh,       \* useState, line 26
    selectedAppointment,  \* useState, line 27
    bookedAppointment,    \* useState, line 31
    showSpinner,          \* useState, line 35
    freeSlotList,         \* useState, line 36
    coupons,              \* useState, line 37
    claimToken,           \* useState, line 38
    startDateTime,        \* useState, line 39
    focusOnList,          \* useState, line 40
    infoboxState,         \* useState, line 41
    formState,            \* useState, line 45
    currentTab,           \* useState, line 51
    bookedList,           \* useState, line 52
    startDate,            \* useState, line 53
    endDate,              \* useState, line 54
    inflight,             \* claimSlot, unClaimSlot and book requests awaiting their response, in issue order
    slotFetches,          \* number of tracked fetchSlots requests awaiting their response
    bookedFetches,        \* fetchBooked requests awaiting their response
    armed,                \* ids of the armed setInterval timers
    interval,             \* `interval` of the current refresh effect (line 101), 0 = null
    timers,               \* ids of the pending setTimeout timers
    timeout,              \* `timeout` of the current spinner effect (line 115), 0 = null
    scheduled,            \* id of the timeout the current spinner effect scheduled, 0 = none
    rendered,             \* what the last committed render saw of the effects' dependencies
    effq,                 \* effects of the last committed render that have not run yet
    issued,               \* issued[n] = start time claimSlot was called with when the server returned Token(n)
    unreleased,           \* tokens returned that no successful book consumed and no unClaimSlot request named
    calls,                \* number of claimAppointment, onBook and onCancelBooking calls so far
    owed,                 \* refresh triggers not yet answered by an immediate fetchSlots
    last                  \* the last event handled, with the pending fetches as they were then

reactVars == <<triggerRefresh, selectedAppointment, bookedAppointment, showSpinner,
               freeSlotList, coupons, claimToken, startDateTime, focusOnList,
               infoboxState, formState, currentTab, bookedList, startDate, endDate>>
bookingVars == <<selectedAppointment, bookedAppointment, claimToken, startDateTime,
                 focusOnList, infoboxState, formState>>
listVars == <<freeSlotList, coupons>>
historyVars == <<currentTab, bookedList, startDate, endDate>>
timerVars == <<armed, interval, timers, timeout, scheduled>>
renderVars == <<rendered, effq>>
serverVars == <<issued, unreleased>>
requestVars == <<inflight, slotFetches, bookedFetches>>
vars == <<mounted, reactVars, requestVars, timerVars, renderVars, serverVars,
          calls, owed, last>>

-----------------------------------------------------------------------------
(* Bounds of the model *)

MaxInFlight == 2
MaxCalls == 3
MaxFetches == 1
MaxTimeouts == 1

-----------------------------------------------------------------------------
(* Values *)

TAB == [BOOK |-> "book", BOOKED |-> "booked"]

INFOBOX_STATES == [INITIAL |-> "INITIAL", FORM_INPUT |-> "FORM_INPUT",
                   APPOINTMENT_SUCCESS |-> "APPOINTMENT_SUCCESS", ERROR |-> "ERROR"]

MsgGone == "Leider ist der Termin inzwischen nicht mehr buchbar, bitte einen anderen Termin waehlen."
MsgUnknown == "Ein unbekannter Fehler ist aufgetreten, bitte Seite neu laden."

Null == [type |-> "null"]
Undefined == [type |-> "undefined"]
Arr(items) == [type |-> "array", items |-> items]
Num(n) == [type |-> "number", n |-> n]

NoAppointment == [startDateTime |-> "", lengthMin |-> 0]
EmptyForm == [firstName |-> "", name |-> "", phone |-> "", office |-> ""]

\* inputs of the handlers and contents of the responses
SlotInputs == { <<"09:00", 15>>, <<"09:30", 30>> }
SlotTimes == { s[1] : s \in SlotInputs }
FormInputs == { [firstName |-> "Ada", name |-> "Lovelace", phone |-> "123", office |-> "north"] }
Today == "d0"
Dates == {"d0", "d1"}
FetchSlotsData == { [slots |-> Arr(<<>>), coupons |-> Num(0)],
                    [slots |-> Arr(<<"09:00">>), coupons |-> Num(7)] }
FetchBookedData == { Arr(<<"b1">>) }
BookData == { [secret |-> "s3cr3t", time_slot |-> s[1], slot_length_min |-> s[2]] :
              s \in SlotInputs }
\* what a rejected request carries: an HTTP response with a status, or none
Errors == { [response |-> [status |-> 410]], [response |-> [status |-> 500]],
            [response |-> Undefined] }

Token(n) == "tok" \o ToString(n)

-----------------------------------------------------------------------------
(* Rendering and effects *)

\* usePromiseTracker (line 23): a tracked promise is pending
promiseInProgress == slotFetches > 0

\* the values a render passes to the dependency lists of the four effects
CurDeps == [focusOnList |-> focusOnList, currentTab |-> currentTab,
            startDate |-> startDate, endDate |-> endDate,
            triggerRefresh |-> triggerRefresh,
            showSpinner |-> showSpinner, promiseInProgress |-> promiseInProgress]

AllEffects == <<"focus", "booked", "refresh", "spinner">>

\* the dependency lists as if that of the spinner effect left showSpinner out
DepsWithoutShowSpinner(e, r) ==
    CASE e = "focus"   -> <<r.focusOnList>>
      [] e = "booked"  -> <<r.currentTab, r.startDate, r.endDate>>
      [] e = "refresh" -> <<r.triggerRefresh>>
      [] e = "spinner" -> <<r.promiseInProgress>>

\* the dependency list of each useEffect, evaluated in render r
Deps(e, r) ==
    CASE e = "focus"   -> <<r.focusOnList>>
      [] e = "booked"  -> <<r.currentTab, r.startDate, r.endDate>>
      [] e = "refresh" -> <<r.triggerRefresh>>
      [] e = "spinner" -> <<r.showSpinner, r.promiseInProgress>>

\* every effect has run and no state change awaits its render
Settled == effq = <<>> /\ (mounted => rendered = CurDeps)

\* a state change is rendered; the effects whose dependencies changed are queued
render ==
    /\ mounted /\ effq = <<>> /\ rendered # CurDeps
    /\ rendered' = CurDeps
    /\ effq' = SelectSeq(AllEffects, LAMBDA e : Deps(e, rendered) # Deps(e, CurDeps))
    /\ UNCHANGED <<mounted, reactVars, requestVars, timerVars, serverVars, calls, owed, last>>

\* Smallest id not in use: the handle setInterval/setTimeout returns
FreshId(used) == CHOOSE n \in 1..(Cardinality(used) + 1) : n \notin used

\* clearInterval / clearTimeout: a null handle clears nothing
ClearTimer(pending, handle) == pending \ {handle}

\* lines 86-90
focusEffect ==
    /\ effq # <<>> /\ Head(effq) = "focus"
    /\ effq' = Tail(effq)
    /\ IF rendered.focusOnList
         THEN \* refreshList()
              /\ triggerRefresh' = TRUE
              /\ owed' = IF triggerRefresh THEN owed ELSE owed + 1
         ELSE \* setInputFocus()
              UNCHANGED <<triggerRefresh, owed>>
    /\ UNCHANGED <<mounted, bookingVars, listVars, historyVars, showSpinner, requestVars,
                   timerVars, rendered, serverVars, calls, last>>

\* lines 69-82, the request of getBookedListData
getBookedListData(r) == [startDate |-> r.startDate, endDate |-> r.endDate]

\* the booked effect as if the test of line 94 were missing
bookedEffectAnyTab ==
    /\ effq # <<>> /\ Head(effq) = "booked"
    /\ effq' = Tail(effq)
    /\ bookedFetches' = Append(bookedFetches, getBookedListData(rendered))
    /\ UNCHANGED <<mounted, reactVars, inflight, slotFetches, timerVars, rendered,
                   serverVars, calls, owed, last>>

\* lines 92-97
bookedEffect ==
    /\ effq # <<>> /\ Head(effq) = "booked"
    /\ effq' = Tail(effq)
    /\ bookedFetches' = IF rendered.currentTab = TAB.BOOKED
                          THEN Append(bookedFetches, getBookedListData(rendered))
                          ELSE bookedFetches
    /\ UNCHANGED <<mounted, reactVars, inflight, slotFetches, timerVars, rendered,
                   serverVars, calls, owed, last>>

\* the refresh effect as if every run fetched, whatever triggerRefresh is
RefreshFetchesAlways(r) == 1

\* line 103: the immediate fetch of the refresh effect
RefreshFetches(r) == IF r.triggerRefresh THEN 1 ELSE 0

\* the cleanup of the refresh effect as if it cleared nothing
RefreshCleanupNothing == armed

\* line 110: the cleanup of the refresh effect
RefreshCleanup == ClearTimer(armed, interval)

\* lines 99-111; the cleanup of the previous run comes first
refreshEffect ==
    /\ effq # <<>> /\ Head(effq) = "refresh"
    /\ effq' = Tail(effq)
    /\ slotFetches' = slotFetches + RefreshFetches(rendered)
    /\ owed' = owed - RefreshFetches(rendered)
    /\ triggerRefresh' = FALSE
    /\ LET id == FreshId(RefreshCleanup)
       IN  /\ armed' = RefreshCleanup \cup {id}
           /\ interval' = id
    /\ UNCHANGED <<mounted, bookingVars, listVars, historyVars, showSpinner, inflight,
                   bookedFetches, timers, timeout, scheduled, rendered, serverVars,
                   calls, last>>

\* line 123: the cleanup of the spinner effect
SpinnerCleanup == ClearTimer(timers, timeout)

\* lines 113-124; `timeout` is never assigned (line 120 drops what setTimeout returns)
spinnerEffect ==
    /\ effq # <<>> /\ Head(effq) = "spinner"
    /\ effq' = Tail(effq)
    /\ timeout' = 0
    /\ IF rendered.promiseInProgress
         THEN /\ showSpinner' = TRUE
              /\ timers' = SpinnerCleanup
              /\ scheduled' = 0
         ELSE IF rendered.showSpinner
         THEN LET id == FreshId(SpinnerCleanup)
              IN  /\ timers' = SpinnerCleanup \cup {id}
                  /\ scheduled' = id
                  /\ UNCHANGED showSpinner
         ELSE /\ timers' = SpinnerCleanup
              /\ scheduled' = 0
              /\ UNCHANGED showSpinner
    /\ UNCHANGED <<mounted, bookingVars, listVars, historyVars, triggerRefresh, requestVars,
                   armed, interval, rendered, serverVars, calls, owed, last>>

\* teardown: the cleanups of lines 110 and 123 run, nothing renders any more
unmount ==
    /\ mounted
    /\ mounted' = FALSE
    /\ armed' = RefreshCleanup
    /\ timers' = SpinnerCleanup
    /\ interval' = 0 /\ timeout' = 0 /\ scheduled' = 0
    /\ last' = [kind |-> "unmount"]
    /\ UNCHANGED <<reactVars, requestVars, renderVars, serverVars, calls, owed>>

-----------------------------------------------------------------------------
(* The slot list: lines 56-67, 84, 99-111 *)

\* a further fetchSlots request fits the bound
CanFetch == slotFetches < MaxFetches

\* the end of a tracked request schedules a spinner timeout (line 120): it must fit the bound
CanSettle == (slotFetches = 1 /\ showSpinner) => Cardinality(timers) < MaxTimeouts

FetchSlotsResponses == { [status |-> 200, data |-> d] : d \in FetchSlotsData } \cup
                       { [status |-> 204, data |-> d] : d \in FetchSlotsData }

\* line 84, called by the view
refreshList ==
    /\ mounted /\ currentTab = TAB.BOOK /\ CanFetch
    /\ triggerRefresh' = TRUE
    /\ owed' = IF triggerRefresh THEN owed ELSE owed + 1
    /\ last' = [kind |-> "refreshList"]
    /\ UNCHANGED <<mounted, bookingVars, listVars, historyVars, showSpinner, requestVars,
                   timerVars, renderVars, serverVars, calls>>

\* fetchSlotsThen as if the test of line 59 were missing
fetchSlotsThenAnyStatus(response) ==
    /\ mounted /\ slotFetches > 0 /\ CanSettle
    /\ slotFetches' = slotFetches - 1
    /\ freeSlotList' = response.data.slots
    /\ coupons' = response.data.coupons
    /\ last' = [kind |-> "fetchSlotsThen", response |-> response]
    /\ UNCHANGED <<mounted, bookingVars, historyVars, triggerRefresh, showSpinner, inflight,
                   bookedFetches, timerVars, renderVars, serverVars, calls, owed>>

\* lines 58-63
fetchSlotsThen(response) ==
    /\ mounted /\ slotFetches > 0 /\ CanSettle
    /\ slotFetches' = slotFetches - 1
    /\ IF response.status = 200
         THEN /\ freeSlotList' = response.data.slots
              /\ coupons' = response.data.coupons
         ELSE UNCHANGED listVars
    /\ last' = [kind |-> "fetchSlotsThen", response |-> response]
    /\ UNCHANGED <<mounted, bookingVars, historyVars, triggerRefresh, showSpinner, inflight,
                   bookedFetches, timerVars, renderVars, serverVars, calls, owed>>

\* lines 64-66
fetchSlotsCatch ==
    /\ mounted /\ slotFetches > 0 /\ CanSettle
    /\ slotFetches' = slotFetches - 1
    /\ last' = [kind |-> "fetchSlotsCatch"]
    /\ UNCHANGED <<mounted, reactVars, inflight, bookedFetches, timerVars, renderVars,
                   serverVars, calls, owed>>

\* lines 106-108: the callback of an armed interval timer
intervalTick ==
    /\ CanFetch
    /\ \E id \in armed :
         /\ slotFetches' = slotFetches + 1
         /\ last' = [kind |-> "intervalTick", id |-> id]
    /\ UNCHANGED <<mounted, reactVars, inflight, bookedFetches, timerVars, renderVars,
                   serverVars, calls, owed>>

\* line 120: the callback of a pending timeout; stale = its effect was cleaned up before
spinnerTimeout ==
    /\ \E id \in timers :
         /\ timers' = timers \ {id}
         /\ scheduled' = IF id = scheduled THEN 0 ELSE scheduled
         /\ last' = [kind |-> "spinnerTimeout", stale |-> id # scheduled]
    /\ showSpinner' = IF mounted THEN FALSE ELSE showSpinner
    /\ UNCHANGED <<mounted, bookingVars, listVars, historyVars, triggerRefresh, requestVars,
                   armed, interval, timeout, renderVars, serverVars, calls, owed>>

-----------------------------------------------------------------------------
(* The booking history: lines 69-82, 92-97, 232, 239, 272, 274 *)

FetchBookedResponses == { [status |-> 200, data |-> d] : d \in FetchBookedData } \cup
                        { [status |-> 204, data |-> d] : d \in FetchBookedData }

\* lines 232 and 239
setCurrentTab(tab) ==
    /\ mounted
    /\ (tab = TAB.BOOKED /\ currentTab # tab) => Len(bookedFetches) < MaxFetches
    /\ currentTab' = tab
    /\ last' = [kind |-> "setCurrentTab", changed |-> tab # currentTab, pending |-> bookedFetches]
    /\ UNCHANGED <<mounted, bookingVars, listVars, bookedList, startDate, endDate,
                   triggerRefresh, showSpinner, requestVars, timerVars, renderVars,
                   serverVars, calls, owed>>

\* line 272, called by the history view
setStartDate(d) ==
    /\ mounted /\ currentTab = TAB.BOOKED
    /\ d # startDate => Len(bookedFetches) < MaxFetches
    /\ startDate' = d
    /\ last' = [kind |-> "setStartDate", changed |-> d # startDate, pending |-> bookedFetches]
    /\ UNCHANGED <<mounted, bookingVars, listVars, currentTab, bookedList, endDate,
                   triggerRefresh, showSpinner, requestVars, timerVars, renderVars,
                   serverVars, calls, owed>>

\* line 274, called by the history view
setEndDate(d) ==
    /\ mounted /\ currentTab = TAB.BOOKED
    /\ d # endDate => Len(bookedFetches) < MaxFetches
    /\ endDate' = d
    /\ last' = [kind |-> "setEndDate", changed |-> d # endDate, pending |-> bookedFetches]
    /\ UNCHANGED <<mounted, bookingVars, listVars, currentTab, bookedList, startDate,
                   triggerRefresh, showSpinner, requestVars, timerVars, renderVars,
                   serverVars, calls, owed>>

\* lines 74-78
fetchBookedThen(response) ==
    /\ mounted /\ bookedFetches # <<>>
    /\ \E i \in DOMAIN bookedFetches :
         /\ bookedFetches' = SubSeq(bookedFetches, 1, i - 1) \o
                             SubSeq(bookedFetches, i + 1, Len(bookedFetches))
         /\ last' = [kind |-> "fetchBookedThen", req |-> bookedFetches[i],
                     response |-> response]
    /\ bookedList' = IF response.status = 200 THEN response.data ELSE bookedList
    /\ UNCHANGED <<mounted, bookingVars, listVars, currentTab, startDate, endDate,
                   triggerRefresh, showSpinner, inflight, slotFetches, timerVars,
                   renderVars, serverVars, calls, owed>>

\* lines 79-81
fetchBookedCatch ==
    /\ mounted /\ bookedFetches # <<>>
    /\ \E i \in DOMAIN bookedFetches :
         /\ bookedFetches' = SubSeq(bookedFetches, 1, i - 1) \o
                             SubSeq(bookedFetches, i + 1, Len(bookedFetches))
         /\ last' = [kind |-> "fetchBookedCatch", req |-> bookedFetches[i]]
    /\ UNCHANGED <<mounted, reactVars, inflight, slotFetches, timerVars, renderVars,
                   serverVars, calls, owed>>

\* lines 218-220
logout ==
    /\ mounted
    /\ last' = [kind |-> "logout"]
    /\ UNCHANGED <<mounted, reactVars, requestVars, timerVars, renderVars, serverVars, calls, owed>>

-----------------------------------------------------------------------------
(* Claiming, booking and cancelling: lines 126-216 *)

Without(i) == SubSeq(inflight, 1, i - 1) \o SubSeq(inflight, i + 1, Len(inflight))

\* request i is answered: the claimSlot requests issued before it are overtaken by it
Answered(i) ==
    LET rest == [j \in DOMAIN inflight |->
                   IF j < i /\ inflight[j].api = "claimSlot"
                     THEN [inflight[j] EXCEPT !.overtakenBy = inflight[i].startDateTime]
                     ELSE inflight[j]]
    IN  SubSeq(rest, 1, i - 1) \o SubSeq(rest, i + 1, Len(rest))

\* the unClaimSlot request i is answered: claimAppointment issued its claimSlot request
\* right after it (line 132), which notes the outcome
Unclaimed(i, outcome) ==
    LET rest == [j \in DOMAIN inflight |->
                   IF j = i + 1 /\ inflight[i].origin = "claimAppointment"
                      /\ inflight[j].api = "claimSlot" /\ inflight[j].unclaim = "pending"
                     THEN [inflight[j] EXCEPT !.unclaim = outcome]
                     ELSE inflight[j]]
    IN  SubSeq(rest, 1, i - 1) \o SubSeq(rest, i + 1, Len(rest))

\* a handler that moves focusOnList to true makes the focus effect refresh the list
CanFocusList == focusOnList \/ CanFetch

\* lines 155-158 and 184-187
ErrorMsg(error) == IF error.response.status = 410 THEN MsgGone ELSE MsgUnknown

\* lines 155-158 and 184-187: reading error.response.status of an error without a
\* response throws, before setInfoboxState is called
Throws(error) == error.response = Undefined

\* lines 144-149 and 205-210: the form of the render that issued the request, cleared
ClearedForm(form) == [form EXCEPT !.firstName = "", !.name = "", !.phone = ""]

\* the unClaimSlot request of claimAppointment as if the test of line 127 were missing
UnClaimBeforeAlways == << [api |-> "unClaimSlot", token |-> claimToken,
                           origin |-> "claimAppointment", formState |-> formState] >>

\* lines 127-131: the unClaimSlot request of claimAppointment
UnClaimBefore == IF claimToken # ""
                   THEN << [api |-> "unClaimSlot", token |-> claimToken,
                            origin |-> "claimAppointment", formState |-> formState] >>
                   ELSE << >>

\* lines 126-132, called by the view with a slot of the list
claimAppointment(sdt, slotLengthMin) ==
    /\ mounted /\ currentTab = TAB.BOOK /\ calls < MaxCalls
    /\ Len(inflight) + Len(UnClaimBefore) + 1 <= MaxInFlight
    /\ calls' = calls + 1
    /\ inflight' = inflight \o UnClaimBefore \o
                   << [api |-> "claimSlot", startDateTime |-> sdt,
                       slotLengthMin |-> slotLengthMin, formState |-> formState,
                       overtakenBy |-> "",
                       unclaim |-> IF claimToken # "" THEN "pending" ELSE "none"] >>
    /\ unreleased' = unreleased \ {claimToken}
    /\ last' = [kind |-> "claimAppointment"]
    /\ UNCHANGED <<mounted, reactVars, slotFetches, bookedFetches, timerVars, renderVars,
                   issued, owed>>

\* claimSlotThen as if a response overtaken by a later request's were dropped
claimSlotThenLatestOnly(i) ==
    /\ mounted /\ inflight[i].api = "claimSlot"
    /\ LET r == inflight[i]
           response == [data |-> Token(Len(issued) + 1)]
       IN  /\ IF r.overtakenBy = ""
                THEN /\ infoboxState' = [state |-> INFOBOX_STATES.FORM_INPUT, msg |-> ""]
                     /\ startDateTime' = r.startDateTime
                     /\ selectedAppointment' = [startDateTime |-> r.startDateTime,
                                                lengthMin |-> r.slotLengthMin]
                     /\ claimToken' = response.data
                     /\ formState' = ClearedForm(r.formState)
                     /\ focusOnList' = FALSE
                ELSE UNCHANGED <<infoboxState, startDateTime, selectedAppointment,
                                 claimToken, formState, focusOnList>>
           /\ issued' = Append(issued, r.startDateTime)
           /\ unreleased' = unreleased \cup {response.data}
           /\ last' = [kind |-> "claimSlotThen", startDateTime |-> r.startDateTime,
                       slotLengthMin |-> r.slotLengthMin, token |-> response.data,
                       overtakenBy |-> r.overtakenBy, unclaim |-> r.unclaim]
    /\ inflight' = Answered(i)
    /\ UNCHANGED <<mounted, bookedAppointment, listVars, historyVars, triggerRefresh,
                   showSpinner, slotFetches, bookedFetches, timerVars, renderVars,
                   calls, owed>>

\* lines 133-151; the server answers with a token it has not used before
claimSlotThen(i) ==
    /\ mounted /\ inflight[i].api = "claimSlot"
    /\ LET r == inflight[i]
           response == [data |-> Token(Len(issued) + 1)]
       IN  /\ infoboxState' = [state |-> INFOBOX_STATES.FORM_INPUT, msg |-> ""]
           /\ startDateTime' = r.startDateTime
           /\ selectedAppointment' = [startDateTime |-> r.startDateTime,
                                      lengthMin |-> r.slotLengthMin]
           /\ claimToken' = response.data
           /\ formState' = ClearedForm(r.formState)
           /\ focusOnList' = FALSE
           /\ issued' = Append(issued, r.startDateTime)
           /\ unreleased' = unreleased \cup {response.data}
           /\ last' = [kind |-> "claimSlotThen", startDateTime |-> r.startDateTime,
                       slotLengthMin |-> r.slotLengthMin, token |-> response.data,
                       overtakenBy |-> r.overtakenBy, unclaim |-> r.unclaim]
    /\ inflight' = Answered(i)
    /\ UNCHANGED <<mounted, bookedAppointment, listVars, historyVars, triggerRefresh,
                   showSpinner, slotFetches, bookedFetches, timerVars, renderVars,
                   calls, owed>>

\* lines 152-163
claimSlotCatch(i, error) ==
    /\ mounted /\ inflight[i].api = "claimSlot" /\ CanFocusList
    /\ IF Throws(error)
         THEN UNCHANGED <<infoboxState, startDateTime, claimToken, focusOnList>>
         ELSE /\ infoboxState' = [state |-> INFOBOX_STATES.ERROR, msg |-> ErrorMsg(error)]
              /\ startDateTime' = ""
              /\ claimToken' = ""
              /\ focusOnList' = TRUE
    /\ inflight' = Answered(i)
    /\ last' = [kind |-> "claimSlotCatch", error |-> error, unclaim |-> inflight[i].unclaim,
                fetches |-> slotFetches]
    /\ UNCHANGED <<mounted, selectedAppointment, bookedAppointment, formState, listVars,
                   historyVars, triggerRefresh, showSpinner, slotFetches, bookedFetches,
                   timerVars, renderVars, serverVars, calls, owed>>

\* lines 166-167, called by the view with the form's data, the claim token among them
onBook ==
    /\ mounted /\ currentTab = TAB.BOOK /\ calls < MaxCalls
    /\ Len(inflight) < MaxInFlight
    /\ calls' = calls + 1
    /\ inflight' = Append(inflight, [api |-> "book", token |-> claimToken])
    /\ last' = [kind |-> "onBook"]
    /\ UNCHANGED <<mounted, reactVars, slotFetches, bookedFetches, timerVars, renderVars,
                   serverVars, owed>>

\* bookThen as if line 178 were missing
bookThenKeepsToken(i, data) ==
    /\ mounted /\ inflight[i].api = "book" /\ CanFocusList
    /\ infoboxState' = [state |-> INFOBOX_STATES.APPOINTMENT_SUCCESS, msg |-> data.secret]
    /\ startDateTime' = data.time_slot
    /\ bookedAppointment' = [startDateTime |-> data.time_slot,
                             lengthMin |-> data.slot_length_min]
    /\ focusOnList' = TRUE
    /\ unreleased' = unreleased \ {inflight[i].token}
    /\ inflight' = Without(i)
    /\ last' = [kind |-> "bookThen", data |-> data, fetches |-> slotFetches]
    /\ UNCHANGED <<mounted, claimToken, selectedAppointment, formState, listVars,
                   historyVars, triggerRefresh, showSpinner, slotFetches, bookedFetches,
                   timerVars, renderVars, issued, calls, owed>>

\* bookThen as if it showed the selected slot, not the one the server returned
bookThenSelectedSlot(i, data) ==
    /\ mounted /\ inflight[i].api = "book" /\ CanFocusList
    /\ infoboxState' = [state |-> INFOBOX_STATES.APPOINTMENT_SUCCESS, msg |-> data.secret]
    /\ startDateTime' = selectedAppointment.startDateTime
    /\ bookedAppointment' = selectedAppointment
    /\ claimToken' = ""
    /\ focusOnList' = TRUE
    /\ unreleased' = unreleased \ {inflight[i].token}
    /\ inflight' = Without(i)
    /\ last' = [kind |-> "bookThen", data |-> data, fetches |-> slotFetches]
    /\ UNCHANGED <<mounted, selectedAppointment, formState, listVars, historyVars,
                   triggerRefresh, showSpinner, slotFetches, bookedFetches, timerVars,
                   renderVars, issued, calls, owed>>

\* lines 168-180
bookThen(i, data) ==
    /\ mounted /\ inflight[i].api = "book" /\ CanFocusList
    /\ infoboxState' = [state |-> INFOBOX_STATES.APPOINTMENT_SUCCESS, msg |-> data.secret]
    /\ startDateTime' = data.time_slot
    /\ bookedAppointment' = [startDateTime |-> data.time_slot,
                             lengthMin |-> data.slot_length_min]
    /\ claimToken' = ""
    /\ focusOnList' = TRUE
    /\ unreleased' = unreleased \ {inflight[i].token}
    /\ inflight' = Without(i)
    /\ last' = [kind |-> "bookThen", data |-> data, fetches |-> slotFetches]
    /\ UNCHANGED <<mounted, selectedAppointment, formState, listVars, historyVars,
                   triggerRefresh, showSpinner, slotFetches, bookedFetches, timerVars,
                   renderVars, issued, calls, owed>>

\* bookCatch as if line 190 were missing
bookCatchKeepsToken(i, error) ==
    /\ mounted /\ inflight[i].api = "book" /\ CanFocusList
    /\ IF Throws(error)
         THEN UNCHANGED <<infoboxState, startDateTime, focusOnList>>
         ELSE /\ infoboxState' = [state |-> INFOBOX_STATES.ERROR, msg |-> ErrorMsg(error)]
              /\ startDateTime' = ""
              /\ focusOnList' = TRUE
    /\ inflight' = Without(i)
    /\ last' = [kind |-> "bookCatch", error |-> error, fetches |-> slotFetches]
    /\ UNCHANGED <<mounted, claimToken, selectedAppointment, bookedAppointment, formState,
                   listVars, historyVars, triggerRefresh, showSpinner, slotFetches,
                   bookedFetches, timerVars, renderVars, serverVars, calls, owed>>

\* lines 181-192
bookCatch(i, error) ==
    /\ mounted /\ inflight[i].api = "book" /\ CanFocusList
    /\ IF Throws(error)
         THEN UNCHANGED <<infoboxState, startDateTime, claimToken, focusOnList>>
         ELSE /\ infoboxState' = [state |-> INFOBOX_STATES.ERROR, msg |-> ErrorMsg(error)]
              /\ startDateTime' = ""
              /\ claimToken' = ""
              /\ focusOnList' = TRUE
    /\ inflight' = Without(i)
    /\ last' = [kind |-> "bookCatch", error |-> error, fetches |-> slotFetches]
    /\ UNCHANGED <<mounted, selectedAppointment, bookedAppointment, formState, listVars,
                   historyVars, triggerRefresh, showSpinner, slotFetches, bookedFetches,
                   timerVars, renderVars, serverVars, calls, owed>>

\* lines 195-196, called by the view
onCancelBooking ==
    /\ mounted /\ currentTab = TAB.BOOK /\ calls < MaxCalls
    /\ Len(inflight) < MaxInFlight
    /\ calls' = calls + 1
    /\ inflight' = Append(inflight, [api |-> "unClaimSlot", token |-> claimToken,
                                     origin |-> "onCancelBooking", formState |-> formState])
    /\ unreleased' = unreleased \ {claimToken}
    /\ last' = [kind |-> "onCancelBooking"]
    /\ UNCHANGED <<mounted, reactVars, slotFetches, bookedFetches, timerVars, renderVars,
                   issued, owed>>

\* lines 197-211; the request of line 128 has no then-callback
unClaimSlotThen(i) ==
    /\ mounted /\ inflight[i].api = "unClaimSlot" /\ CanFocusList
    /\ IF inflight[i].origin = "onCancelBooking"
         THEN /\ infoboxState' = [state |-> INFOBOX_STATES.INITIAL, msg |-> ""]
              /\ startDateTime' = ""
              /\ claimToken' = ""
              /\ focusOnList' = TRUE
              /\ formState' = ClearedForm(inflight[i].formState)
         ELSE UNCHANGED <<infoboxState, startDateTime, claimToken, focusOnList, formState>>
    /\ inflight' = Unclaimed(i, "done")
    /\ last' = [kind |-> "unClaimSlotThen", origin |-> inflight[i].origin,
                fetches |-> slotFetches]
    /\ UNCHANGED <<mounted, selectedAppointment, bookedAppointment, listVars, historyVars,
                   triggerRefresh, showSpinner, slotFetches, bookedFetches, timerVars,
                   renderVars, serverVars, calls, owed>>

\* unClaimSlotCatch as if a failed unclaim were handled like a failed claim
unClaimSlotCatchAsError(i, error) ==
    /\ mounted /\ inflight[i].api = "unClaimSlot"
    /\ infoboxState' = [state |-> INFOBOX_STATES.ERROR, msg |-> MsgUnknown]
    /\ startDateTime' = ""
    /\ claimToken' = ""
    /\ inflight' = Unclaimed(i, "failed")
    /\ last' = [kind |-> "unClaimSlotCatch", origin |-> inflight[i].origin]
    /\ UNCHANGED <<mounted, selectedAppointment, bookedAppointment, focusOnList, formState,
                   listVars, historyVars, triggerRefresh, showSpinner, slotFetches,
                   bookedFetches, timerVars, renderVars, serverVars, calls, owed>>

\* lines 128-130 and 212-215: nothing but console.error
unClaimSlotCatch(i, error) ==
    /\ mounted /\ inflight[i].api = "unClaimSlot"
    /\ inflight' = Unclaimed(i, "failed")
    /\ last' = [kind |-> "unClaimSlotCatch", origin |-> inflight[i].origin]
    /\ UNCHANGED <<mounted, reactVars, slotFetches, bookedFetches, timerVars, renderVars,
                   serverVars, calls, owed>>

\* line 265, called by the view as the form is typed into
setFormState(form) ==
    /\ mounted /\ currentTab = TAB.BOOK
    /\ formState' = form
    /\ last' = [kind |-> "setFormState"]
    /\ UNCHANGED <<mounted, selectedAppointment, bookedAppointment, claimToken,
                   startDateTime, focusOnList, infoboxState, listVars, historyVars,
                   triggerRefresh, showSpinner, requestVars, timerVars, renderVars,
                   serverVars, calls, owed>>

\* line 254, called by the view
setSelectedAppointment(appointment) ==
    /\ mounted /\ currentTab = TAB.BOOK
    /\ selectedAppointment' = appointment
    /\ last' = [kind |-> "setSelectedAppointment"]
    /\ UNCHANGED <<mounted, bookedAppointment, claimToken, startDateTime, focusOnList,
                   infoboxState, formState, listVars, historyVars, triggerRefresh,
                   showSpinner, requestVars, timerVars, renderVars, serverVars, calls, owed>>

-----------------------------------------------------------------------------
(* The component *)

\* lines 26-54: the state of the first render, whose effects have yet to run
Init ==
    /\ mounted = TRUE
    /\ triggerRefresh = TRUE
    /\ selectedAppointment = NoAppointment
    /\ bookedAppointment = NoAppointment
    /\ showSpinner = FALSE
    /\ freeSlotList = Null
    /\ coupons = Null
    /\ claimToken = ""
    /\ startDateTime = ""
    /\ focusOnList = TRUE
    /\ infoboxState = [state |-> INFOBOX_STATES.INITIAL, msg |-> ""]
    /\ formState = EmptyForm
    /\ currentTab = TAB.BOOK
    /\ bookedList = Arr(<<>>)
    /\ startDate = Today
    /\ endDate = Today
    /\ inflight = <<>>
    /\ slotFetches = 0
    /\ bookedFetches = <<>>
    /\ armed = {}
    /\ interval = 0
    /\ timers = {}
    /\ timeout = 0
    /\ scheduled = 0
    /\ rendered = [focusOnList |-> TRUE, currentTab |-> TAB.BOOK, startDate |-> Today,
                   endDate |-> Today, triggerRefresh |-> TRUE, showSpinner |-> FALSE,
                   promiseInProgress |-> FALSE]
    /\ effq = AllEffects
    /\ issued = <<>>
    /\ unreleased = {}
    /\ calls = 0
    /\ owed = 1
    /\ last = [kind |-> "mount"]

\* the user's handlers and the callbacks of requests and timers
BookingEvents ==
    \/ \E s \in SlotInputs : claimAppointment(s[1], s[2])
    \/ \E i \in DOMAIN inflight : claimSlotThen(i)
    \/ \E i \in DOMAIN inflight, error \in Errors : claimSlotCatch(i, error)
    \/ onBook
    \/ \E i \in DOMAIN inflight, data \in BookData : bookThen(i, data)
    \/ \E i \in DOMAIN inflight, error \in Errors : bookCatch(i, error)
    \/ onCancelBooking
    \/ \E i \in DOMAIN inflight : unClaimSlotThen(i)
    \/ \E i \in DOMAIN inflight, error \in Errors : unClaimSlotCatch(i, error)
    \/ \E form \in FormInputs : setFormState(form)
    \/ \E s \in SlotInputs : setSelectedAppointment([startDateTime |-> s[1], lengthMin |-> s[2]])

\* The handlers alone.  No effect writes a variable a handler reads or writes but
\* triggerRefresh and showSpinner, so the effects are left out here.
NextBooking == BookingEvents

SpecBooking == Init /\ [][NextBooking]_vars

Effects == render \/ focusEffect \/ bookedEffect \/ refreshEffect \/ spinnerEffect

OneBooking == [secret |-> "s3cr3t", time_slot |-> "09:00", slot_length_min |-> 15]

\* The slot list, its timers and the teardown, with the handlers that move
\* focusOnList (called with one slot).  React runs the effects of a render before
\* the next event is handled.
NextRefresh ==
    \/ Effects
    \/ Settled /\ unmount
    \/ Settled /\ refreshList
    \/ Settled /\ \E response \in FetchSlotsResponses : fetchSlotsThen(response)
    \/ Settled /\ fetchSlotsCatch
    \/ Settled /\ intervalTick
    \/ Settled /\ spinnerTimeout
    \/ Settled /\ claimAppointment("09:00", 15)
    \/ Settled /\ \E i \in DOMAIN inflight : claimSlotThen(i)
    \/ Settled /\ \E i \in DOMAIN inflight, error \in Errors : claimSlotCatch(i, error)
    \/ Settled /\ onBook
    \/ Settled /\ \E i \in DOMAIN inflight : bookThen(i, OneBooking)
    \/ Settled /\ \E i \in DOMAIN inflight, error \in Errors : bookCatch(i, error)
    \/ Settled /\ onCancelBooking
    \/ Settled /\ \E i \in DOMAIN inflight : unClaimSlotThen(i)
    \/ Settled /\ \E i \in DOMAIN inflight : unClaimSlotCatch(i, [response |-> [status |-> 500]])
    \/ Settled /\ logout

SpecRefresh == Init /\ [][NextRefresh]_vars

\* The booking history and the tabs, with the slot list's first fetch
NextHistory ==
    \/ Effects
    \/ Settled /\ unmount
    \/ Settled /\ \E response \in FetchSlotsResponses : fetchSlotsThen(response)
    \/ Settled /\ fetchSlotsCatch
    \/ Settled /\ intervalTick
    \/ Settled /\ spinnerTimeout
    \/ Settled /\ \E tab \in {TAB.BOOK, TAB.BOOKED} : setCurrentTab(tab)
    \/ Settled /\ \E d \in Dates : setStartDate(d)
    \/ Settled /\ \E d \in Dates : setEndDate(d)
    \/ Settled /\ \E response \in FetchBookedResponses : fetchBookedThen(response)
    \/ Settled /\ fetchBookedCatch
    \/ Settled /\ logout

SpecHistory == Init /\ [][NextHistory]_vars

\* The spinner: the slot list's requests and the timers
NextSpinner ==
    \/ Effects
    \/ Settled /\ unmount
    \/ Settled /\ refreshList
    \/ Settled /\ \E response \in FetchSlotsResponses : fetchSlotsThen(response)
    \/ Settled /\ fetchSlotsCatch
    \/ Settled /\ intervalTick
    \/ Settled /\ spinnerTimeout

\* React runs the effects of every render it commits, and a timeout that is not
\* cleared runs its callback after its 1.25 seconds
SpecSpinner ==
    Init /\ [][NextSpinner]_vars /\ WF_vars(Effects) /\ WF_vars(spinnerTimeout)

-----------------------------------------------------------------------------
(* Properties *)

\* C1: whenever claimToken is not empty, startDateTime is not empty and is the start
\* time claimSlot was called with when the server returned that token.
ClaimTokenHoldsSlot ==
    claimToken # "" =>
        /\ startDateTime # ""
        /\ \E n \in DOMAIN issued : Token(n) = claimToken /\ issued[n] = startDateTime

\* a second token is held, for another slot than the first
ClaimTokenHoldsSlotWitness ==
    /\ Len(issued) = 2 /\ issued[1] # issued[2]
    /\ claimToken = Token(2) /\ startDateTime = issued[2]

\* C2: with no request in flight and claimToken empty, every token the server returned
\* was consumed by a successful book or was the argument of an unClaimSlot request.
EmptyTokenNothingHeld ==
    (inflight = <<>> /\ claimToken = "") => unreleased = {}

\* C3: at most one interval timer is armed; once the effects of a mounted component
\* have run, the one armed is that of the current refresh effect; after teardown none
\* is armed and no interval callback runs.
IntervalCancelled ==
    /\ Cardinality(armed) <= 1
    /\ (mounted /\ Settled) => (interval # 0 /\ armed = {interval})
    /\ ~mounted => (armed = {} /\ last.kind # "intervalTick")

\* torn down after the timer had fetched the list and had been armed anew
IntervalCancelledWitness ==
    /\ ~mounted /\ last.kind = "unmount" /\ armed = {}
    /\ freeSlotList # Null /\ ~triggerRefresh /\ calls > 0

\* C4: a timeout whose spinner effect has been cleaned up never runs its callback.
TimeoutCancelled ==
    last.kind = "spinnerTimeout" => ~last.stale

\* C5: a successful claimSlot response that is handled after the response of a later
\* claimAppointment call sets selectedAppointment, startDateTime and claimToken to
\* those of its own, older request.
StaleClaimOverwrites ==
    (last.kind = "claimSlotThen" /\ last.overtakenBy # "") =>
        /\ selectedAppointment = [startDateTime |-> last.startDateTime,
                                  lengthMin |-> last.slotLengthMin]
        /\ startDateTime = last.startDateTime
        /\ claimToken = last.token

\* the older request was for another slot than the later one
StaleClaimOverwritesWitness ==
    /\ last.kind = "claimSlotThen"
    /\ last.overtakenBy \notin {"", last.startDateTime}
    /\ startDateTime = last.startDateTime
    /\ selectedAppointment.startDateTime # last.overtakenBy
    /\ claimToken = last.token

\* C6: after any failed claimSlot or book request the info-box is in the ERROR state,
\* with the message for HTTP 410 or the generic one, claimToken and startDateTime are
\* empty and focusOnList is true.
FailureShowsError ==
    last.kind \in {"claimSlotCatch", "bookCatch"} =>
        /\ infoboxState =
             [state |-> INFOBOX_STATES.ERROR,
              msg |-> IF last.error.response # Undefined /\ last.error.response.status = 410
                        THEN MsgGone ELSE MsgUnknown]
        /\ claimToken = "" /\ startDateTime = "" /\ focusOnList

\* C7: a failed unClaimSlot request changes none of claimToken, startDateTime,
\* infoboxState, formState and focusOnList; and the response of a claimSlot request
\* whose unClaimSlot request failed is handled as any other.
UnclaimFailureIgnored ==
    /\ [][(\E i \in DOMAIN inflight, error \in Errors : unClaimSlotCatch(i, error)) =>
            UNCHANGED <<claimToken, startDateTime, infoboxState, formState, focusOnList>>]_vars
    /\ [](last.kind = "claimSlotThen" /\ last.unclaim = "failed" =>
            /\ infoboxState = [state |-> INFOBOX_STATES.FORM_INPUT, msg |-> ""]
            /\ claimToken = last.token /\ startDateTime = last.startDateTime
            /\ ~focusOnList)
    /\ [](last.kind = "claimSlotCatch" /\ last.unclaim = "failed" /\ ~Throws(last.error) =>
            /\ infoboxState = [state |-> INFOBOX_STATES.ERROR, msg |-> ErrorMsg(last.error)]
            /\ claimToken = "" /\ startDateTime = ""
            /\ focusOnList)

\* the unclaim of onCancelBooking failed and the form is still open with its token
UnclaimFailureIgnoredWitness ==
    /\ last.kind = "unClaimSlotCatch" /\ last.origin = "onCancelBooking"
    /\ claimToken # "" /\ startDateTime # "" /\ ~focusOnList
    /\ infoboxState.state = INFOBOX_STATES.FORM_INPUT

\* C8: a successful book response sets the info-box to APPOINTMENT_SUCCESS with the
\* secret, startDateTime and bookedAppointment to the returned slot, claimToken to ""
\* and focusOnList to true, and leaves selectedAppointment and formState unchanged.
BookSuccess ==
    /\ [](last.kind = "bookThen" =>
            /\ infoboxState = [state |-> INFOBOX_STATES.APPOINTMENT_SUCCESS,
                               msg |-> last.data.secret]
            /\ startDateTime = last.data.time_slot
            /\ bookedAppointment = [startDateTime |-> last.data.time_slot,
                                    lengthMin |-> last.data.slot_length_min]
            /\ claimToken = "" /\ focusOnList)
    /\ [][(\E i \in DOMAIN inflight, data \in BookData : bookThen(i, data)) =>
            UNCHANGED <<selectedAppointment, formState>>]_vars

\* booked while a claim was held, the form filled in, for another slot than selected
BookSuccessWitness ==
    /\ last.kind = "bookThen"
    /\ selectedAppointment # NoAppointment /\ formState.name # ""
    /\ bookedAppointment.startDateTime # selectedAppointment.startDateTime
    /\ issued # <<>>

\* C9: the info-box is in the FORM_INPUT state exactly when claimToken is not empty,
\* and exactly when focusOnList is false.
InfoboxTracksClaim ==
    /\ infoboxState.state = INFOBOX_STATES.FORM_INPUT <=> claimToken # ""
    /\ infoboxState.state = INFOBOX_STATES.FORM_INPUT <=> ~focusOnList

\* the form is open with its token while two more requests await their response
InfoboxTracksClaimWitness ==
    /\ infoboxState.state = INFOBOX_STATES.FORM_INPUT /\ claimToken # "" /\ ~focusOnList
    /\ Len(inflight) = 2 /\ inflight[1].api = "book" /\ inflight[2].api = "unClaimSlot"

\* C10: every refresh trigger (the mount, a refreshList call while triggerRefresh is
\* false) is answered by exactly one immediate fetchSlots: a trigger is owed exactly
\* while triggerRefresh is true, and none once the effects have settled.
OneFetchPerTrigger ==
    /\ owed = IF triggerRefresh THEN 1 ELSE 0
    /\ Settled => ~triggerRefresh

\* the view called refreshList, the effects have run and its one request is pending
OneFetchPerTriggerWitness ==
    /\ last.kind = "refreshList" /\ Settled /\ mounted
    /\ slotFetches = 1 /\ owed = 0 /\ ~triggerRefresh

\* C11: in a mounted component the spinner is shown once a tracked request is in
\* progress, also when the timeout of an earlier request has hidden it meanwhile; and
\* if from some point on no request is in progress, the spinner is eventually hidden
\* for good.
SpinnerFollowsRequests ==
    /\ []((mounted /\ Settled /\ promiseInProgress) => showSpinner)
    /\ (mounted /\ promiseInProgress) ~> showSpinner
    /\ <>[](mounted /\ ~promiseInProgress) => <>[]~showSpinner

\* the timeout of an earlier request ran while a new request was in progress, and the
\* spinner is shown again
SpinnerFollowsRequestsWitness ==
    /\ last.kind = "spinnerTimeout" /\ last.stale
    /\ mounted /\ Settled /\ promiseInProgress /\ showSpinner

\* C12: a claimAppointment call issues, after the requests already in flight, one
\* unClaimSlot request for the held token followed by one claimSlot request for the
\* new slot when claimToken is not empty, and the one claimSlot request alone when it
\* is empty; the claimSlot request is issued while the unClaimSlot request is pending.
ClaimIssuesRequests ==
    [][\A s \in SlotInputs : claimAppointment(s[1], s[2]) =>
         LET new == SubSeq(inflight', Len(inflight) + 1, Len(inflight'))
             n == Len(new)
         IN  /\ SubSeq(inflight', 1, Len(inflight)) = inflight
             /\ n = IF claimToken # "" THEN 2 ELSE 1
             /\ new[n].api = "claimSlot" /\ new[n].startDateTime = s[1]
             /\ n = 2 => /\ new[1].api = "unClaimSlot"
                         /\ new[1].token = claimToken]_vars

\* a slot was claimed while a token was held: both requests are pending
ClaimIssuesRequestsWitness ==
    /\ last.kind = "claimAppointment" /\ claimToken # ""
    /\ Len(inflight) = 2
    /\ inflight[1].api = "unClaimSlot" /\ inflight[1].token = claimToken
    /\ inflight[2].api = "claimSlot" /\ inflight[2].startDateTime # startDateTime

\* C13: once a failed claimSlot request has been handled (its error carrying an HTTP
\* response) and the effects have run, a fetchSlots request has been issued since,
\* whether focusOnList was true or false when the failure was handled.
RefetchAfterClaimFailure ==
    (/\ mounted /\ Settled
     /\ last.kind = "claimSlotCatch" /\ ~Throws(last.error))
    => slotFetches > last.fetches

\* C14: handling a successful claimSlot response, or the successful unClaimSlot
\* response of onCancelBooking, sets firstName, name and phone of formState to "" and
\* leaves office as it was immediately before the response was handled.
ResponseKeepsOffice ==
    [][(\/ \E i \in DOMAIN inflight : claimSlotThen(i)
        \/ \E i \in DOMAIN inflight :
              unClaimSlotThen(i) /\ inflight[i].origin = "onCancelBooking")
       => formState' = [firstName |-> "", name |-> "", phone |-> "",
                        office |-> formState.office]]_vars

\* C15: freeSlotList and coupons change only in the step that handles a fetchSlots
\* response of status 200, which sets them to the slots and the coupons of that
\* response; a failed fetch, a response of another status and every claim, book,
\* cancel and logout step (the step whose event `last` then records) leave both
\* unchanged.
ListFromFetchOnly ==
    /\ [][listVars' # listVars =>
            \E response \in FetchSlotsResponses :
                /\ response.status = 200 /\ fetchSlotsThen(response)
                /\ freeSlotList' = response.data.slots
                /\ coupons' = response.data.coupons]_vars
    /\ [][(\/ last'.kind \in {"fetchSlotsCatch", "logout",
                           "claimAppointment", "claimSlotThen", "claimSlotCatch",
                           "onBook", "bookThen", "bookCatch",
                           "onCancelBooking", "unClaimSlotThen", "unClaimSlotCatch"}
           \/ last'.kind = "fetchSlotsThen" /\ last'.response.status # 200)
          => UNCHANGED listVars]_vars

\* the slots and coupons of a status-200 response are shown, handled after a booking
\* handler had been called
ListFromFetchOnlyWitness ==
    /\ last.kind = "fetchSlotsThen" /\ last.response.status = 200
    /\ freeSlotList = last.response.data.slots /\ coupons = last.response.data.coupons
    /\ freeSlotList # Arr(<<>>) /\ calls > 0

\* C16: once the effects have run after a click on a tab, exactly one fetchBooked
\* request for the current date range has been issued if the click switched to the
\* BOOKED tab, and none otherwise; once they have run after startDate or endDate was
\* set on the BOOKED tab, exactly one request for the new range has been issued if
\* the date changed; a request is issued only then, never while currentTab is BOOK;
\* and bookedList changes only to the data of a response of status 200.
HistoryFetchedOnTab ==
    /\ []((mounted /\ Settled /\ last.kind = "setCurrentTab") =>
            bookedFetches =
              IF last.changed /\ currentTab = TAB.BOOKED
                THEN Append(last.pending, [startDate |-> startDate, endDate |-> endDate])
                ELSE last.pending)
    /\ []((mounted /\ Settled /\ last.kind \in {"setStartDate", "setEndDate"}) =>
            bookedFetches =
              IF last.changed
                THEN Append(last.pending, [startDate |-> startDate, endDate |-> endDate])
                ELSE last.pending)
    /\ [][Len(bookedFetches') > Len(bookedFetches) =>
            /\ currentTab = TAB.BOOKED
            /\ last.kind \in {"setCurrentTab", "setStartDate", "setEndDate"}]_vars
    /\ [][bookedList' # bookedList =>
            \E response \in FetchBookedResponses :
                /\ response.status = 200 /\ fetchBookedThen(response)
                /\ bookedList' = response.data]_vars

\* on the BOOKED tab, with a list shown, the end date was changed: the one request
\* pending is for the new range
HistoryFetchedOnTabWitness ==
    /\ mounted /\ Settled /\ currentTab = TAB.BOOKED
    /\ last.kind = "setEndDate" /\ last.changed /\ last.pending = <<>>
    /\ bookedList # Arr(<<>>)
    /\ bookedFetches = << [startDate |-> startDate, endDate |-> endDate] >>
    /\ startDate # endDate

====
